---- MODULE Spec2Model ----
(***************************************************************************)
(* A model of src/LLM.py: the corpus loader, the two LLM selectors with    *)
(* their response clean-up, the table extractor, the table info gatherer,  *)
(* the SQL synthesizer and the orchestrator run_full_process.              *)
(*                                                                         *)
(* Texts are TLA+ strings, read as sequences of characters (Len, SubSeq,   *)
(* \o).  A TLA+ string literal cannot hold the backtick character, so the  *)
(* model writes the backtick as "^"; no text of the model uses "^" for     *)
(* anything else.  The markdown fence ``` is therefore "^^^".              *)
(***************************************************************************)
EXTENDS Integers, Sequences, FiniteSets, TLC

VARIABLES
    pc,             \* position of the running operation
    payload,        \* fence check: the JSON text J the LLM wraps
    fence,          \* fence check: the wrapper the LLM put around J
    response_text,  \* the LLM response handed to the clean-up (line 63, 104)
    cleaned,        \* response_text after the clean-up (line 66, 107)
    parsed,         \* outcome of json.loads(cleaned) (line 70, 111)
    disk,           \* the files glob.glob finds, in its order (line 13)
    idx,            \* files of disk the loader's loop has processed (line 15)
    file_structure, \* the loader's dict under construction (line 12)
    error,          \* the exception that ended the operation, "" when none
    data,           \* the corpus get_table_clusters returned (line 160)
    file_names,     \* list(data.keys()) (line 166)
    relevant_files, \* what get_relevant_files returned (line 167)
    tables,         \* what get_tables_from_files returned (line 170)
    relevant_tables,\* what pick_relevant_tables returned (line 173)
    columns_info,   \* what grab_table_info returned (line 176)
    sql_query,      \* what generate_sql returned (line 179)
    result,         \* <<bundle>> once run_full_process has returned, else <<>>
    llm_calls,      \* the chat completion calls issued so far, in order
    call_raised     \* the LLM client raised instead of answering the last call

fenceVars == <<payload, fence, cleaned, parsed>>
loadVars  == <<disk, idx, file_structure, data>>
pipeVars  == <<file_names, relevant_files, tables, relevant_tables,
               columns_info, sql_query, result, llm_calls, call_raised>>
vars == <<pc, payload, fence, response_text, cleaned, parsed,
          disk, idx, file_structure, error, data,
          file_names, relevant_files, tables, relevant_tables,
          columns_info, sql_query, result, llm_calls, call_raised>>

(***************************************************************************)
(* Bounds of the model.                                                    *)
(***************************************************************************)
MaxPieces == 3      \* pieces concatenated into the middle of a payload text
MaxElems == 2       \* elements of a JSON array in a schema file
MaxSel == 2         \* names in a selection the LLM returns
MaxPicked == 3      \* file names handed to the extractor and the gatherer

(***************************************************************************)
(* Python str operations used by the code.                                 *)
(***************************************************************************)
BT == "^"
FenceMark == BT \o BT \o BT
FenceJson == FenceMark \o "json"

Whitespace == {" ", "\n", "\t", "\r"}

Ch(s, i) == IF i >= 1 /\ i <= Len(s) THEN SubSeq(s, i, i) ELSE ""

StartsWith(s, p) == Len(p) <= Len(s) /\ SubSeq(s, 1, Len(p)) = p

EndsWith(s, p) == Len(p) <= Len(s) /\ SubSeq(s, Len(s) - Len(p) + 1, Len(s)) = p

\* str.replace(old, ''): every leftmost non-overlapping occurrence is removed,
\* in one left-to-right pass.
RECURSIVE StrRemove(_, _)
StrRemove(s, old) ==
    IF Len(s) < Len(old) THEN s
    ELSE IF StartsWith(s, old)
         THEN StrRemove(SubSeq(s, Len(old) + 1, Len(s)), old)
         ELSE SubSeq(s, 1, 1) \o StrRemove(SubSeq(s, 2, Len(s)), old)

RECURSIVE LStrip(_)
LStrip(s) == IF Len(s) > 0 /\ Ch(s, 1) \in Whitespace
             THEN LStrip(SubSeq(s, 2, Len(s))) ELSE s

RECURSIVE RStrip(_)
RStrip(s) == IF Len(s) > 0 /\ Ch(s, Len(s)) \in Whitespace
             THEN RStrip(SubSeq(s, 1, Len(s) - 1)) ELSE s

\* str.strip()
StrStrip(s) == RStrip(LStrip(s))

\* `sub in s` for two Python strings
RECURSIVE SubstringFrom(_, _, _)
SubstringFrom(sub, s, i) ==
    IF i + Len(sub) - 1 > Len(s) THEN FALSE
    ELSE IF SubSeq(s, i, i + Len(sub) - 1) = sub THEN TRUE
    ELSE SubstringFrom(sub, s, i + 1)

IsSubstring(sub, s) == SubstringFrom(sub, s, 1)

(***************************************************************************)
(* The clean-up of an LLM response before json.loads.                      *)
(***************************************************************************)
\* the clean-up without its second replace: only the tagged marker is removed
CleanFilesResponse_TaggedOnly(text) ==
    StrStrip(StrRemove(text, FenceJson))

\* get_relevant_files, line 66
CleanFilesResponse(text) ==
    StrStrip(StrRemove(StrRemove(text, FenceJson), FenceMark))

\* pick_relevant_tables, line 107
CleanTablesResponse(text) ==
    StrStrip(StrRemove(StrRemove(text, FenceJson), FenceMark))

(***************************************************************************)
(* json.loads on the JSON subset the model's texts use: strings without    *)
(* escapes, unsigned integers, null, arrays and objects, with JSON         *)
(* whitespace between tokens.                                              *)
(* A JSON value is a record of one shape, [t, s, q]: the tag, the text of  *)
(* a string, and the elements of an array or the members of an object; an  *)
(* object keeps its members in insertion order, as a Python dict does.     *)
(***************************************************************************)
JStr(s) == [t |-> "str", s |-> s, q |-> <<>>]
JArr(elems) == [t |-> "arr", s |-> "", q |-> elems]
JObj(members) == [t |-> "obj", s |-> "", q |-> members]
JNum(digits) == [t |-> "num", s |-> digits, q |-> <<>>]
JNull == [t |-> "null", s |-> "", q |-> <<>>]
\* one member of an object: its key and its value
JMem(k, val) == [t |-> "mem", s |-> k, q |-> <<val>>]

ParseFail == [ok |-> FALSE, val |-> JStr(""), next |-> 0]
ParseOk(val, next) == [ok |-> TRUE, val |-> val, next |-> next]

JsonWs == {" ", "\n", "\t", "\r"}

RECURSIVE SkipWs(_, _)
SkipWs(s, i) == IF Ch(s, i) \in JsonWs THEN SkipWs(s, i + 1) ELSE i

\* index of the quote closing the string whose first character is at i; 0 when
\* the string is unterminated or holds a control character or a backslash
\* (the model's texts use no escapes)
RECURSIVE ScanString(_, _)
ScanString(s, i) ==
    IF i > Len(s) THEN 0
    ELSE IF Ch(s, i) = "\"" THEN i
    ELSE IF Ch(s, i) \in {"\n", "\t", "\r", "\\"} THEN 0
    ELSE ScanString(s, i + 1)

Digits == {"0", "1", "2", "3", "4", "5", "6", "7", "8", "9"}

\* index after the last digit of the run of digits starting at i
RECURSIVE ScanDigits(_, _)
ScanDigits(s, i) == IF Ch(s, i) \in Digits THEN ScanDigits(s, i + 1) ELSE i

HasKey(members, k) == \E j \in 1..Len(members) : members[j].s = k

\* dict[k] = v: a new key goes last, an old key keeps its place
SetKey(members, k, val) ==
    IF HasKey(members, k)
    THEN [j \in 1..Len(members) |->
             IF members[j].s = k THEN JMem(k, val) ELSE members[j]]
    ELSE Append(members, JMem(k, val))

GetKey(members, k) ==
    members[CHOOSE j \in 1..Len(members) : members[j].s = k].q[1]

RECURSIVE ParseValue(_, _)
RECURSIVE ParseElems(_, _, _)
RECURSIVE ParseMembers(_, _, _)

\* the value starting at index i (leading whitespace already skipped)
ParseValue(s, i) ==
    IF Ch(s, i) = "\""
    THEN LET e == ScanString(s, i + 1)
         IN  IF e = 0 THEN ParseFail
             ELSE ParseOk(JStr(SubSeq(s, i + 1, e - 1)), e + 1)
    ELSE IF Ch(s, i) = "["
    THEN LET j == SkipWs(s, i + 1)
         IN  IF Ch(s, j) = "]" THEN ParseOk(JArr(<<>>), j + 1)
             ELSE ParseElems(s, j, <<>>)
    ELSE IF Ch(s, i) = "{"
    THEN LET j == SkipWs(s, i + 1)
         IN  IF Ch(s, j) = "}" THEN ParseOk(JObj(<<>>), j + 1)
             ELSE ParseMembers(s, j, <<>>)
    ELSE IF Ch(s, i) \in Digits
    THEN LET e == IF Ch(s, i) = "0" THEN i + 1 ELSE ScanDigits(s, i)
         IN  ParseOk(JNum(SubSeq(s, i, e - 1)), e)
    ELSE IF i + 3 <= Len(s) /\ SubSeq(s, i, i + 3) = "null"
    THEN ParseOk(JNull, i + 4)
    ELSE ParseFail

\* array elements from index i on, acc the elements read so far
ParseElems(s, i, acc) ==
    LET r == ParseValue(s, i)
    IN  IF ~r.ok THEN ParseFail
        ELSE LET j == SkipWs(s, r.next)
             IN  IF Ch(s, j) = "]" THEN ParseOk(JArr(Append(acc, r.val)), j + 1)
                 ELSE IF Ch(s, j) = ","
                      THEN ParseElems(s, SkipWs(s, j + 1), Append(acc, r.val))
                      ELSE ParseFail

\* object members from index i on, acc the members read so far
ParseMembers(s, i, acc) ==
    IF Ch(s, i) # "\"" THEN ParseFail
    ELSE LET key == ParseValue(s, i)
         IN  IF ~key.ok THEN ParseFail
             ELSE LET c == SkipWs(s, key.next)
                  IN  IF Ch(s, c) # ":" THEN ParseFail
                      ELSE LET r == ParseValue(s, SkipWs(s, c + 1))
                           IN  IF ~r.ok THEN ParseFail
                               ELSE LET j   == SkipWs(s, r.next)
                                        new == SetKey(acc, key.val.s, r.val)
                                    IN  IF Ch(s, j) = "}"
                                        THEN ParseOk(JObj(new), j + 1)
                                        ELSE IF Ch(s, j) = ","
                                             THEN ParseMembers(s, SkipWs(s, j + 1), new)
                                             ELSE ParseFail

\* json.loads(text): one value, whitespace around it, nothing else
json_loads(text) ==
    LET r == ParseValue(text, SkipWs(text, 1))
    IN  IF ~r.ok THEN ParseFail
        ELSE IF SkipWs(text, r.next) = Len(text) + 1
             THEN ParseOk(r.val, Len(text) + 1)
             ELSE ParseFail

\* response_json[key] (line 71, 112): the value, or a raised KeyError/TypeError
Lookup(val, key) ==
    IF val.t = "obj" /\ HasKey(val.q, key)
    THEN [ok |-> TRUE, val |-> GetKey(val.q, key)]
    ELSE [ok |-> FALSE, val |-> JStr("")]

(***************************************************************************)
(* Fence check: the clean-up and the parse, applied to a payload text J    *)
(* as the LLM may send it: bare, or wrapped in a markdown fence.           *)
(***************************************************************************)
Pieces == {BT, FenceMark, "json", "\"", " "}

RECURSIVE PieceTexts(_)
PieceTexts(n) ==
    IF n = 0 THEN {""}
    ELSE LET P == PieceTexts(n - 1) IN P \cup {s \o p : s \in P, p \in Pieces}

\* a payload is a middle text inside a frame
Frames == { [pre |-> "", post |-> ""],
            [pre |-> "\"", post |-> "\""],
            [pre |-> "{\"relevant_files\": [\"a", post |-> "\"]}"],
            [pre |-> "{\"relevant_tables\": [\"", post |-> "b\"]}"] }

Payloads(n) == {f.pre \o m \o f.post : f \in Frames, m \in PieceTexts(n)}

Fences == {"none", "json", "plain", "json_ws", "plain_ws"}

Wrap(f, J) ==
    CASE f = "none"     -> J
      [] f = "json"     -> FenceJson \o J \o FenceMark
      [] f = "plain"    -> FenceMark \o J \o FenceMark
      [] f = "json_ws"  -> " " \o FenceJson \o "\n" \o J \o "\n" \o FenceMark \o "\n"
      [] f = "plain_ws" -> "\n" \o FenceMark \o "\n" \o J \o " " \o FenceMark \o " "

\* the orchestrator's variables before run_full_process has assigned them
PipeUnused ==
    /\ file_names = <<>>
    /\ relevant_files = JNull
    /\ tables = <<>>
    /\ relevant_tables = JNull
    /\ columns_info = <<>>
    /\ sql_query = ""
    /\ result = <<>>
    /\ llm_calls = <<>>
    /\ call_raised = FALSE

InitFence ==
    /\ payload \in Payloads(MaxPieces)
    /\ fence \in Fences
    /\ response_text = Wrap(fence, payload)
    /\ pc = "response"
    /\ cleaned = ""
    /\ parsed = ParseFail
    /\ disk = <<>> /\ idx = 0 /\ file_structure = <<>> /\ data = <<>>
    /\ error = ""
    /\ PipeUnused

CleanFiles ==
    /\ pc = "response"
    /\ cleaned' = CleanFilesResponse(response_text)
    /\ pc' = "cleaned_files"
    /\ UNCHANGED <<payload, fence, response_text, parsed, loadVars, error, pipeVars>>

CleanTables ==
    /\ pc = "response"
    /\ cleaned' = CleanTablesResponse(response_text)
    /\ pc' = "cleaned_tables"
    /\ UNCHANGED <<payload, fence, response_text, parsed, loadVars, error, pipeVars>>

ParseCleaned ==
    /\ pc \in {"cleaned_files", "cleaned_tables"}
    /\ parsed' = json_loads(cleaned)
    /\ pc' = IF pc = "cleaned_files" THEN "parsed_files" ELSE "parsed_tables"
    /\ UNCHANGED <<payload, fence, response_text, cleaned, loadVars, error, pipeVars>>

NextFence == CleanFiles \/ CleanTables \/ ParseCleaned

SpecFence == InitFence /\ [][NextFence]_vars

(***************************************************************************)
(* Claims about the clean-up (checked under SpecFence).                    *)
(***************************************************************************)
\* J is a JSON text: json.loads accepts it as it stands
IsJsonText(J) == json_loads(J).ok

CleanedBy(stage) ==
    IF stage = "files" THEN pc \in {"cleaned_files", "parsed_files"}
    ELSE pc \in {"cleaned_tables", "parsed_tables"}

\* C7: for a JSON text J, the response that wraps J in a fence (tagged json
\* or not, with or without whitespace around the markers) is cleaned to the
\* text the bare response J is cleaned to, by either selector, and its parse
\* is the parse of that text.
C7_FencedAndBareCleanAlike ==
    IsJsonText(payload) =>
        /\ CleanedBy("files") => cleaned = CleanFilesResponse(Wrap("none", payload))
        /\ CleanedBy("tables") => cleaned = CleanTablesResponse(Wrap("none", payload))
        /\ pc = "parsed_files" =>
              parsed = json_loads(CleanFilesResponse(Wrap("none", payload)))
        /\ pc = "parsed_tables" =>
              parsed = json_loads(CleanTablesResponse(Wrap("none", payload)))

\* C7 witness: a fenced response, with whitespace and a json tag, whose JSON
\* text has the relevant_files array, was cleaned and parsed by the file selector.
C7_Witness ==
    /\ pc = "parsed_files"
    /\ fence = "json_ws"
    /\ IsJsonText(payload)
    /\ parsed.ok
    /\ Lookup(parsed.val, "relevant_files").ok

\* the response with only its leading and trailing fence marker and the
\* whitespace around them removed
StripOuterFence(text) ==
    LET a == StrStrip(text)
        b == IF StartsWith(a, FenceJson) THEN SubSeq(a, Len(FenceJson) + 1, Len(a))
             ELSE IF StartsWith(a, FenceMark) THEN SubSeq(a, Len(FenceMark) + 1, Len(a))
             ELSE a
        c == IF EndsWith(b, FenceMark) THEN SubSeq(b, 1, Len(b) - Len(FenceMark))
             ELSE b
    IN  StrStrip(c)

\* C8 as stated, for the responses that carry a JSON text: the text handed to
\* the JSON parser is the response with its leading and trailing fence markers
\* and whitespace removed, every character between them unchanged (a fence
\* marker inside a string value of the JSON text included).
C8_OnlyOuterFenceRemoved ==
    (IsJsonText(payload)
     /\ pc \in {"cleaned_files", "cleaned_tables", "parsed_files", "parsed_tables"}) =>
        cleaned = StripOuterFence(response_text)

(***************************************************************************)
(* The corpus: a Python dict file name -> list of table descriptors, kept  *)
(* as the sequence of its entries in insertion order.                      *)
(***************************************************************************)
DictHas(d, name) == \E j \in 1..Len(d) : d[j].name = name

DictGet(d, name) == d[CHOOSE j \in 1..Len(d) : d[j].name = name].tables

\* d[name] = lst
DictSet(d, name, lst) ==
    IF DictHas(d, name)
    THEN [j \in 1..Len(d) |->
             IF d[j].name = name THEN [name |-> name, tables |-> lst] ELSE d[j]]
    ELSE Append(d, [name |-> name, tables |-> lst])

\* list(d.keys())
DictKeys(d) == [j \in 1..Len(d) |-> d[j].name]

(***************************************************************************)
(* get_table_clusters, lines 6-30.                                         *)
(***************************************************************************)
NoInfo == [table_name |-> JNull, table_description |-> JNull, columns |-> JNull]

\* `'table_name' in table` (line 23) for a JSON value: "yes", "no" or "raise"
ContainsTableName(table) ==
    CASE table.t = "obj" -> IF HasKey(table.q, "table_name") THEN "yes" ELSE "no"
      [] table.t = "str" -> IF IsSubstring("table_name", table.s) THEN "yes" ELSE "no"
      [] table.t = "arr" -> IF \E j \in 1..Len(table.q) : table.q[j] = JStr("table_name")
                            THEN "yes" ELSE "no"
      [] table.t \in {"num", "null"} -> "raise"

\* table.get(key, default) on a dict
DictGetDefault(table, key, default) ==
    IF HasKey(table.q, key) THEN GetKey(table.q, key) ELSE default

\* lines 23-29 for one element: the descriptor to append, nothing, or a raise
\* (table['table_name'] on a str or a list raises TypeError)
ProcessTable(table) ==
    LET c == ContainsTableName(table)
    IN  IF c = "raise" THEN [kind |-> "raise", info |-> NoInfo]
        ELSE IF c = "no" THEN [kind |-> "skip", info |-> NoInfo]
        ELSE IF table.t # "obj" THEN [kind |-> "raise", info |-> NoInfo]
        ELSE [kind |-> "append",
              info |-> [table_name        |-> GetKey(table.q, "table_name"),
                        table_description |-> DictGetDefault(table, "table_description", JStr("")),
                        columns           |-> DictGetDefault(table, "columns", JArr(<<>>))]]

\* the loop of lines 22-29 from element i on, acc the descriptors appended so far
RECURSIVE BuildTables(_, _, _)
BuildTables(elems, i, acc) ==
    IF i > Len(elems) THEN [ok |-> TRUE, tables |-> acc]
    ELSE LET r == ProcessTable(elems[i])
         IN  IF r.kind = "raise" THEN [ok |-> FALSE, tables |-> <<>>]
             ELSE BuildTables(elems, i + 1,
                              IF r.kind = "append" THEN Append(acc, r.info) ELSE acc)

\* LoadOneFile with a parse failure swallowed into an empty table list
LoadOneFile_Swallow(fs, f) ==
    IF ~f.readable THEN [error |-> "OSError", fs |-> fs]
    ELSE LET r == json_loads(f.text)
         IN  IF ~r.ok \/ r.val.t # "arr"
             THEN [error |-> "", fs |-> DictSet(fs, f.name, <<>>)]
             ELSE LET b == BuildTables(r.val.q, 1, <<>>)
                  IN  IF ~b.ok THEN [error |-> "TypeError", fs |-> fs]
                      ELSE [error |-> "", fs |-> DictSet(fs, f.name, b.tables)]

\* one iteration of the loop of line 15 (lines 16-29) on file f
LoadOneFile(fs, f) ==
    IF ~f.readable THEN [error |-> "OSError", fs |-> fs]
    ELSE LET r == json_loads(f.text)
         IN  IF ~r.ok THEN [error |-> "JSONDecodeError", fs |-> fs]
             ELSE IF r.val.t # "arr"
                  THEN [error |-> "", fs |-> DictSet(fs, f.name, <<>>)]
                  ELSE LET b == BuildTables(r.val.q, 1, <<>>)
                       IN  IF ~b.ok THEN [error |-> "TypeError", fs |-> fs]
                           ELSE [error |-> "", fs |-> DictSet(fs, f.name, b.tables)]

\* line 15-29: the loop takes the next file
LoadFile ==
    /\ pc = "load"
    /\ idx < Len(disk)
    /\ LET r == LoadOneFile(file_structure, disk[idx + 1])
       IN  IF r.error = ""
           THEN /\ file_structure' = r.fs
                /\ idx' = idx + 1
                /\ UNCHANGED <<pc, error>>
           ELSE /\ pc' = "raised"
                /\ error' = r.error
                /\ UNCHANGED <<file_structure, idx>>
    /\ UNCHANGED <<fenceVars, response_text, disk, data, pipeVars>>

\* line 30: return file_structure
LoadReturn ==
    /\ pc = "load"
    /\ idx = Len(disk)
    /\ data' = file_structure
    /\ pc' = "loaded"
    /\ UNCHANGED <<fenceVars, response_text, disk, idx, file_structure, error, pipeVars>>

\* the loop of line 15 from file i on
RECURSIVE LoadFrom(_, _, _)
LoadFrom(files, i, fs) ==
    IF i > Len(files) THEN [error |-> "", fs |-> fs]
    ELSE LET r == LoadOneFile(fs, files[i])
         IN  IF r.error # "" THEN [error |-> r.error, fs |-> <<>>]
             ELSE LoadFrom(files, i + 1, r.fs)

\* get_table_clusters run to its end: the corpus, or the exception
get_table_clusters(files) == LoadFrom(files, 1, <<>>)

(***************************************************************************)
(* Loader check: schema files of every shape.                              *)
(***************************************************************************)
ElemOrders == "{\"table_name\": \"orders\", \"table_description\": \"sales\", \"columns\": [\"id\"]}"
ElemOrders2024 == "{\"table_name\": \"orders_2024\"}"
ElemNoName == "{\"table_description\": \"no name\"}"

ElemTexts == {ElemOrders, ElemOrders2024, ElemNoName, "1", "\"my table_name\""}

\* the texts "e1, e2, ..." of the lists of at most n elements
RECURSIVE ElemLists(_)
ElemLists(n) ==
    IF n = 0 THEN {""}
    ELSE LET P == ElemLists(n - 1)
         IN  P \cup {IF s = "" THEN e ELSE s \o ", " \o e : s \in P, e \in ElemTexts}

\* the texts of the JSON arrays of at most n elements
ArrayTexts(n) == {"[" \o s \o "]" : s \in ElemLists(n)}

\* well-formed JSON whose top-level value is no array
NonArrayTexts == {ElemOrders, "\"orders\"", "7", "null"}

\* texts json.load rejects
BadTexts == {"", "[" \o ElemOrders, "table_name"}

FileNames == {"a.json", "b.json"}

DiskFiles(name, n) ==
    {[name |-> name, readable |-> TRUE, text |-> x] :
        x \in ArrayTexts(n) \cup NonArrayTexts \cup BadTexts}
    \cup {[name |-> name, readable |-> FALSE, text |-> ""]}

\* glob.glob gives the matching files, each once, in an order of its own
\* with arrays of at most n elements (one fewer in a second file)
Disks(n) ==
    {<<>>}
    \cup UNION {{<<f>> : f \in DiskFiles(name, n)} : name \in FileNames}
    \cup UNION {{<<f, g>> : f \in DiskFiles(nm[1], n), g \in DiskFiles(nm[2], n - 1)} :
                    nm \in {x \in FileNames \X FileNames : x[1] # x[2]}}

InitLoad ==
    /\ disk \in Disks(MaxElems)
    /\ idx = 0
    /\ file_structure = <<>>
    /\ data = <<>>
    /\ pc = "load"
    /\ error = ""
    /\ payload = "" /\ fence = "none" /\ response_text = "" /\ cleaned = ""
    /\ parsed = ParseFail
    /\ PipeUnused

(***************************************************************************)
(* Claims about the corpus loader (checked under SpecLoad).                *)
(***************************************************************************)
\* what json.load makes of file f: "unreadable", "bad" (no JSON), "array"
\* (a well-formed JSON array) or "nonseq" (JSON of another top-level type)
FileKind(f) ==
    IF ~f.readable THEN "unreadable"
    ELSE LET r == json_loads(f.text)
         IN  IF ~r.ok THEN "bad" ELSE IF r.val.t = "arr" THEN "array" ELSE "nonseq"

FailsToParse(f) == FileKind(f) = "bad"
IsNonSequence(f) == FileKind(f) = "nonseq"
IsArrayFile(f) == FileKind(f) = "array"

\* the loader stopped with an exception while processing file j of disk
RaisedAt(j) == pc = "raised" /\ idx + 1 = j

\* C3 as stated: a file that fails to parse as JSON, or whose top-level value
\* is not a sequence, is never fatal: the loader does not stop at it, and the
\* returned corpus holds an empty table list under its name.
C3_SwallowedIntoEmptyList ==
    \A j \in 1..Len(disk) :
        (FailsToParse(disk[j]) \/ IsNonSequence(disk[j])) =>
            /\ ~RaisedAt(j)
            /\ pc = "loaded" =>
                  /\ DictHas(data, disk[j].name)
                  /\ DictGet(data, disk[j].name) = <<>>

\* C3 amended: a file whose top-level JSON value is not a sequence gets an
\* empty table list under its name and is not fatal (the loop goes on to the
\* remaining files and the corpus returned holds the empty list); a file that
\* fails to parse as JSON is fatal: the loader raises JSONDecodeError at that
\* file, never gets past it and returns no corpus.
C3_NonSequenceEmptyParseFailureRaises ==
    \A j \in 1..Len(disk) :
        LET kind == FileKind(disk[j])
        IN  /\ kind = "nonseq" =>
                  /\ ~RaisedAt(j)
                  /\ (pc = "load" /\ idx >= j) =>
                        /\ DictHas(file_structure, disk[j].name)
                        /\ DictGet(file_structure, disk[j].name) = <<>>
                  /\ pc = "loaded" =>
                        /\ DictHas(data, disk[j].name)
                        /\ DictGet(data, disk[j].name) = <<>>
            /\ kind = "bad" =>
                  /\ idx < j
                  /\ pc # "loaded"
                  /\ data = <<>>
                  /\ RaisedAt(j) => error = "JSONDecodeError"
                  /\ (pc = "load" /\ idx + 1 = j) => ~(ENABLED LoadReturn)

\* C3 witness: the first file is no sequence and was loaded as an empty list,
\* the second fails to parse and the loader raised there.
C3_Witness ==
    /\ Len(disk) = 2
    /\ IsNonSequence(disk[1])
    /\ FailsToParse(disk[2])
    /\ RaisedAt(2)
    /\ error = "JSONDecodeError"
    /\ file_structure = <<[name |-> disk[1].name, tables |-> <<>>]>>

\* an array element carries a table_name field: it is an object with that key
CarriesTableName(e) == e.t = "obj" /\ HasKey(e.q, "table_name")

DescriptorOf(e) ==
    [table_name        |-> GetKey(e.q, "table_name"),
     table_description |-> IF HasKey(e.q, "table_description")
                           THEN GetKey(e.q, "table_description") ELSE JStr(""),
     columns           |-> IF HasKey(e.q, "columns")
                           THEN GetKey(e.q, "columns") ELSE JArr(<<>>)]

\* one descriptor per element that carries table_name, in array order
ExpectedTables(elems) ==
    LET kept == SelectSeq(elems, CarriesTableName)
    IN  [k \in 1..Len(kept) |-> DescriptorOf(kept[k])]

\* C4 as stated: for every file whose content is a well-formed JSON array the
\* loader does not fail, and the file's table list is exactly one descriptor
\* per element carrying table_name, in array order, with the defaults; so an
\* array none of whose elements has table_name gives an empty list, whatever
\* the elements' JSON types.
C4_OneDescriptorPerNamedElement ==
    \A j \in 1..Len(disk) :
        IsArrayFile(disk[j]) =>
            /\ ~RaisedAt(j)
            /\ pc = "loaded" =>
                  /\ DictHas(data, disk[j].name)
                  /\ DictGet(data, disk[j].name)
                        = ExpectedTables(json_loads(disk[j].text).val.q)

NextLoad == LoadFile \/ LoadReturn

SpecLoad == InitLoad /\ [][NextLoad]_vars

(***************************************************************************)
(* Python operations on the values json.loads returns.                     *)
(***************************************************************************)
\* `for x in val`: the items, or a raised TypeError (a number, None)
Iterate(val) ==
    CASE val.t = "arr" -> [ok |-> TRUE, items |-> val.q]
      [] val.t = "str" -> [ok |-> TRUE,
                           items |-> [j \in 1..Len(val.s) |-> JStr(Ch(val.s, j))]]
      [] val.t = "obj" -> [ok |-> TRUE,
                           items |-> [j \in 1..Len(val.q) |-> JStr(val.q[j].s)]]
      [] val.t \in {"num", "null"} -> [ok |-> FALSE, items |-> <<>>]

\* a list or a dict cannot be looked up in a dict
Hashable(val) == val.t \in {"str", "num", "null"}

\* `val in d` for the corpus d, whose keys are file names
InCorpus(d, val) == val.t = "str" /\ DictHas(d, val.s)

\* the text an f-string puts for a value
PyFormat(val) ==
    CASE val.t = "str"  -> val.s
      [] val.t = "num"  -> val.s
      [] val.t = "null" -> "None"

\* `name in rt` (line 122): "yes", "no" or "raise"
PyIn(name, rt) ==
    CASE rt.t = "str" -> IF name.t # "str" THEN "raise"
                         ELSE IF IsSubstring(name.s, rt.s) THEN "yes" ELSE "no"
      [] rt.t = "arr" -> IF \E j \in 1..Len(rt.q) : rt.q[j] = name THEN "yes" ELSE "no"
      [] rt.t = "obj" -> IF ~Hashable(name) THEN "raise"
                         ELSE IF name.t = "str" /\ HasKey(rt.q, name.s) THEN "yes"
                         ELSE "no"
      [] rt.t \in {"num", "null"} -> "raise"

(***************************************************************************)
(* get_tables_from_files, lines 74-81.                                     *)
(***************************************************************************)
\* lines 78-80 for the descriptors of one file, appended to acc
RECURSIVE AppendTableStrings(_, _, _)
AppendTableStrings(lst, k, acc) ==
    IF k > Len(lst) THEN acc
    ELSE AppendTableStrings(lst, k + 1,
             Append(acc, PyFormat(lst[k].table_name) \o " : "
                         \o PyFormat(lst[k].table_description)))

\* the loop of line 76 from item i on
RECURSIVE ExtractFrom(_, _, _, _)
ExtractFrom(items, i, d, acc) ==
    IF i > Len(items) THEN [ok |-> TRUE, out |-> acc]
    ELSE IF ~Hashable(items[i]) THEN [ok |-> FALSE, out |-> <<>>]
    ELSE ExtractFrom(items, i + 1, d,
             IF InCorpus(d, items[i])
             THEN AppendTableStrings(DictGet(d, items[i].s), 1, acc)
             ELSE acc)

\* the extractor that stops at the first selected file missing from the corpus
get_tables_from_files_StopAtUnknown(fnames, d) ==
    LET it == Iterate(fnames)
        unknown == IF it.ok
                   THEN {j \in 1..Len(it.items) : ~InCorpus(d, it.items[j])}
                   ELSE {}
        upto == IF unknown = {} THEN Len(it.items)
                ELSE (CHOOSE j \in unknown : \A m \in unknown : j <= m) - 1
    IN  IF ~it.ok THEN [ok |-> FALSE, out |-> <<>>]
        ELSE ExtractFrom(SubSeq(it.items, 1, upto), 1, d, <<>>)

get_tables_from_files(fnames, d) ==
    LET it == Iterate(fnames)
    IN  IF ~it.ok THEN [ok |-> FALSE, out |-> <<>>]
        ELSE ExtractFrom(it.items, 1, d, <<>>)

(***************************************************************************)
(* grab_table_info, lines 114-128.                                         *)
(***************************************************************************)
\* any(name in rt for rt in items) from item i on: any stops at the first yes
RECURSIVE AnyIn(_, _, _)
AnyIn(name, items, i) ==
    IF i > Len(items) THEN "no"
    ELSE LET r == PyIn(name, items[i])
         IN  IF r = "no" THEN AnyIn(name, items, i + 1) ELSE r

\* line 122 with exact equality in place of containment
MatchesRelevant_Exact(name, rts) ==
    LET it == Iterate(rts)
    IN  IF ~it.ok THEN "raise"
        ELSE IF \E j \in 1..Len(it.items) : it.items[j] = name THEN "yes" ELSE "no"

\* line 122
MatchesRelevant(name, rts) ==
    LET it == Iterate(rts)
    IN  IF ~it.ok THEN "raise" ELSE AnyIn(name, it.items, 1)

\* lines 119-127 for the descriptors of one file, from descriptor k on
RECURSIVE GatherTables(_, _, _, _)
GatherTables(lst, k, rts, acc) ==
    IF k > Len(lst) THEN [ok |-> TRUE, out |-> acc]
    ELSE LET m == MatchesRelevant(lst[k].table_name, rts)
         IN  IF m = "raise" THEN [ok |-> FALSE, out |-> <<>>]
             ELSE GatherTables(lst, k + 1, rts,
                      IF m = "yes"
                      THEN Append(acc, [table_name        |-> lst[k].table_name,
                                        table_description |-> lst[k].table_description,
                                        columns           |-> lst[k].columns])
                      ELSE acc)

\* the loop of line 117 from item i on
RECURSIVE GatherFrom(_, _, _, _, _)
GatherFrom(items, i, d, rts, acc) ==
    IF i > Len(items) THEN [ok |-> TRUE, out |-> acc]
    ELSE IF ~Hashable(items[i]) THEN [ok |-> FALSE, out |-> <<>>]
    ELSE IF ~InCorpus(d, items[i]) THEN GatherFrom(items, i + 1, d, rts, acc)
    ELSE LET g == GatherTables(DictGet(d, items[i].s), 1, rts, acc)
         IN  IF ~g.ok THEN [ok |-> FALSE, out |-> <<>>]
             ELSE GatherFrom(items, i + 1, d, rts, g.out)

\* the gatherer that looks through every file of the corpus
grab_table_info_AllFiles(rts, fnames, d) ==
    GatherFrom([j \in 1..Len(d) |-> JStr(d[j].name)], 1, d, rts, <<>>)

grab_table_info(rts, fnames, d) ==
    LET it == Iterate(fnames)
    IN  IF ~it.ok THEN [ok |-> FALSE, out |-> <<>>]
        ELSE GatherFrom(it.items, 1, d, rts, <<>>)

(***************************************************************************)
(* The two selectors after the response has arrived (lines 63-71, 104-112) *)
(* and generate_sql's return (line 147).                                   *)
(***************************************************************************)
\* json.loads(text)[key], or the exception raised
ParseSelection(text, key) ==
    LET r == json_loads(text)
    IN  IF ~r.ok THEN [error |-> "JSONDecodeError", val |-> JNull]
        ELSE IF Lookup(r.val, key).ok
             THEN [error |-> "", val |-> Lookup(r.val, key).val]
             ELSE [error |-> IF r.val.t = "obj" THEN "KeyError" ELSE "TypeError",
                   val |-> JNull]

\* generate_sql returning the response cleaned as the selectors clean theirs
GenerateSqlReturn_Cleaned(content) == CleanFilesResponse(content)

\* line 147: response.choices[0].message.content, as it is
GenerateSqlReturn(content) == content

(***************************************************************************)
(* What the orchestrator runs on: the schema files on disk and the texts   *)
(* the LLM may answer with.                                                *)
(***************************************************************************)
ElemCustomers == "{\"table_name\": \"customers\", \"table_description\": \"\", \"columns\": []}"

OrdersText == "[" \o ElemOrders \o ", " \o ElemOrders2024 \o "]"
CustomersText == "[" \o ElemCustomers \o ", " \o ElemNoName \o "]"

File(name, text) == [name |-> name, readable |-> TRUE, text |-> text]

PipelineDisks ==
    { <<>>,
      <<File("a.json", OrdersText)>>,
      <<File("a.json", OrdersText), File("b.json", CustomersText)>>,
      <<File("b.json", CustomersText), File("a.json", OrdersText)>>,
      <<File("a.json", "7"), File("b.json", OrdersText)>>,
      <<File("a.json", OrdersText), File("b.json", "")>>,
      <<[name |-> "a.json", readable |-> FALSE, text |-> ""]>>,
      <<File("a.json", "[1]")>> }

\* the texts "n1", "n2", ... of the lists of at most n names
RECURSIVE NameLists(_, _)
NameLists(names, n) ==
    IF n = 0 THEN {""}
    ELSE LET P == NameLists(names, n - 1)
         IN  P \cup {IF s = "" THEN "\"" \o x \o "\"" ELSE s \o ", \"" \o x \o "\"" :
                        s \in P, x \in names}

FileSelNames == {"a.json", "b.json", "zz.json"}
TableSelNames == {"orders_2024", "customers (crm)"}

\* answers of the shape the prompt asks for
FilesSelections(n) ==
    {"{\"relevant_files\": [" \o s \o "]}" : s \in NameLists(FileSelNames, n)}

TablesSelections(n) ==
    {"{\"relevant_tables\": [" \o s \o "]}" : s \in NameLists(TableSelNames, n)}

\* JSON with the key and a value of another shape
OddFilesPayloads ==
    {"{\"relevant_files\": [[\"a.json\"]]}",
     "{\"relevant_files\": \"a.json\"}",
     "{\"relevant_files\": null}"}

OddTablesPayloads ==
    {"{\"relevant_tables\": [1]}",
     "{\"relevant_tables\": [[\"orders\"]]}",
     "{\"relevant_tables\": \"orders\"}"}

\* texts that are no JSON, and JSON without the key
BadFilesPayloads ==
    {" ",
     "{\"relevant_files\": [\"a.json\"",
     "Sure: {\"relevant_files\": []}",
     "{\"files\": [\"a.json\"]}",
     "[\"a.json\"]"}

BadTablesPayloads ==
    {"\n",
     "{\"relevant_tables\": [\"orders\",]}",
     "{\"tables\": [\"orders\"]}",
     "\"orders\""}

FencedBadFilesResponses ==
    {Wrap("json_ws", "{\"files\": [\"a.json\"]}"),
     Wrap("plain", "{\"relevant_files\": [\"a.json\"")}

FencedBadTablesResponses ==
    {Wrap("json_ws", "{\"tables\": [\"orders\"]}")}

\* the LLM sends a payload bare, or some of them inside a markdown fence
FilesResponses(n) ==
    FilesSelections(n) \cup OddFilesPayloads \cup BadFilesPayloads
    \cup {Wrap("json_ws", p) : p \in {"{\"relevant_files\": [\"a.json\"]}",
                                       "{\"relevant_files\": [\"b.json\", \"a.json\"]}"}}
    \cup FencedBadFilesResponses

TablesResponses(n) ==
    TablesSelections(n) \cup OddTablesPayloads \cup BadTablesPayloads
    \cup {Wrap("json_ws", "{\"relevant_tables\": [\"orders_2024\"]}"),
          Wrap("plain", "{\"relevant_tables\": [\"customers (crm)\"]}")}
    \cup FencedBadTablesResponses

SqlResponses ==
    {"SELECT * FROM orders;",
     FenceMark \o "sql\nSELECT 1;\n" \o FenceMark \o "\n"}

(***************************************************************************)
(* run_full_process, lines 149-189, one action per step.  An LLM call is   *)
(* two steps: the request is issued, then the client returns the response  *)
(* or raises.                                                              *)
(***************************************************************************)
Call(stage, model, listed) ==
    [stage |-> stage, model |-> model, listed |-> listed, status |-> "pending"]

\* the last call of the log with its status set
Answered(calls, status) ==
    [calls EXCEPT ![Len(calls)] = [@ EXCEPT !.status = status]]

Raise(kind) ==
    /\ pc' = "raised"
    /\ error' = kind

\* line 166 and get_relevant_files up to the request, lines 44-62
IssueFilesCall ==
    /\ pc = "loaded"
    /\ file_names' = DictKeys(data)
    /\ llm_calls' = Append(llm_calls, Call("files", "gpt-4o-mini", DictKeys(data)))
    /\ pc' = "files_waiting"
    /\ UNCHANGED <<fenceVars, response_text, loadVars, error, relevant_files, tables,
                   relevant_tables, columns_info, sql_query, result, call_raised>>

\* get_relevant_files from the response on, lines 59-71
ReceiveFilesResponse ==
    /\ pc = "files_waiting"
    /\ \/ /\ call_raised' = TRUE
          /\ Raise("APIError")
          /\ llm_calls' = Answered(llm_calls, "raised")
          /\ UNCHANGED <<response_text, relevant_files>>
       \/ \E r \in FilesResponses(MaxSel) :
             LET sel == ParseSelection(CleanFilesResponse(r), "relevant_files")
             IN  /\ response_text' = r
                 /\ call_raised' = FALSE
                 /\ IF sel.error = ""
                    THEN /\ relevant_files' = sel.val
                         /\ pc' = "files_selected"
                         /\ llm_calls' = Answered(llm_calls, "parsed")
                         /\ UNCHANGED error
                    ELSE /\ Raise(sel.error)
                         /\ llm_calls' = Answered(llm_calls, "unparsed")
                         /\ UNCHANGED relevant_files
    /\ UNCHANGED <<fenceVars, loadVars, file_names, tables, relevant_tables,
                   columns_info, sql_query, result>>

\* line 170
ExtractTables ==
    /\ pc = "files_selected"
    /\ LET r == get_tables_from_files(relevant_files, data)
       IN  IF r.ok
           THEN /\ tables' = r.out
                /\ pc' = "tables_extracted"
                /\ UNCHANGED error
           ELSE /\ Raise("TypeError")
                /\ UNCHANGED tables
    /\ UNCHANGED <<fenceVars, response_text, loadVars, file_names, relevant_files,
                   relevant_tables, columns_info, sql_query, result, llm_calls,
                   call_raised>>

\* the table selector's request skipped when there is nothing to choose from
IssueTablesCall_SkipWhenEmpty ==
    /\ pc = "tables_extracted"
    /\ IF tables = <<>>
       THEN /\ relevant_tables' = JArr(<<>>)
            /\ pc' = "tables_selected"
            /\ UNCHANGED llm_calls
       ELSE /\ llm_calls' = Append(llm_calls, Call("tables", "gpt-4o", tables))
            /\ pc' = "tables_waiting"
            /\ UNCHANGED relevant_tables
    /\ UNCHANGED <<fenceVars, response_text, loadVars, error, file_names,
                   relevant_files, tables, columns_info, sql_query, result,
                   call_raised>>

\* pick_relevant_tables up to the request, lines 86-103
IssueTablesCall ==
    /\ pc = "tables_extracted"
    /\ llm_calls' = Append(llm_calls, Call("tables", "gpt-4o", tables))
    /\ pc' = "tables_waiting"
    /\ UNCHANGED relevant_tables
    /\ UNCHANGED <<fenceVars, response_text, loadVars, error, file_names,
                   relevant_files, tables, columns_info, sql_query, result,
                   call_raised>>

\* the table selector answering an unparsable response by asking again
ReceiveTablesResponse_Retry ==
    /\ pc = "tables_waiting"
    /\ \/ /\ call_raised' = TRUE
          /\ Raise("APIError")
          /\ llm_calls' = Answered(llm_calls, "raised")
          /\ UNCHANGED <<response_text, relevant_tables>>
       \/ \E r \in TablesResponses(MaxSel) :
             LET sel == ParseSelection(CleanTablesResponse(r), "relevant_tables")
             IN  /\ response_text' = r
                 /\ call_raised' = FALSE
                 /\ UNCHANGED error
                 /\ IF sel.error = ""
                    THEN /\ relevant_tables' = sel.val
                         /\ pc' = "tables_selected"
                         /\ llm_calls' = Answered(llm_calls, "parsed")
                    ELSE /\ pc' = "tables_waiting"
                         /\ llm_calls' = Answered(llm_calls, "unparsed")
                         /\ UNCHANGED relevant_tables
    /\ UNCHANGED <<fenceVars, loadVars, file_names, relevant_files, tables,
                   columns_info, sql_query, result>>

\* pick_relevant_tables from the response on, lines 100-112
ReceiveTablesResponse ==
    /\ pc = "tables_waiting"
    /\ \/ /\ call_raised' = TRUE
          /\ Raise("APIError")
          /\ llm_calls' = Answered(llm_calls, "raised")
          /\ UNCHANGED <<response_text, relevant_tables>>
       \/ \E r \in TablesResponses(MaxSel) :
             LET sel == ParseSelection(CleanTablesResponse(r), "relevant_tables")
             IN  /\ response_text' = r
                 /\ call_raised' = FALSE
                 /\ IF sel.error = ""
                    THEN /\ relevant_tables' = sel.val
                         /\ pc' = "tables_selected"
                         /\ llm_calls' = Answered(llm_calls, "parsed")
                         /\ UNCHANGED error
                    ELSE /\ Raise(sel.error)
                         /\ llm_calls' = Answered(llm_calls, "unparsed")
                         /\ UNCHANGED relevant_tables
    /\ UNCHANGED <<fenceVars, loadVars, file_names, relevant_files, tables,
                   columns_info, sql_query, result>>

\* line 176
GatherTableInfo ==
    /\ pc = "tables_selected"
    /\ LET r == grab_table_info(relevant_tables, relevant_files, data)
       IN  IF r.ok
           THEN /\ columns_info' = r.out
                /\ pc' = "info_gathered"
                /\ UNCHANGED error
           ELSE /\ Raise("TypeError")
                /\ UNCHANGED columns_info
    /\ UNCHANGED <<fenceVars, response_text, loadVars, file_names, relevant_files,
                   tables, relevant_tables, sql_query, result, llm_calls, call_raised>>

\* generate_sql up to the request, lines 132-146
IssueSqlCall ==
    /\ pc = "info_gathered"
    /\ llm_calls' = Append(llm_calls, Call("sql", "gpt-4o", <<>>))
    /\ pc' = "sql_waiting"
    /\ UNCHANGED <<fenceVars, response_text, loadVars, error, file_names,
                   relevant_files, tables, relevant_tables, columns_info, sql_query,
                   result, call_raised>>

\* generate_sql from the response on, lines 143-147
ReceiveSqlResponse ==
    /\ pc = "sql_waiting"
    /\ \/ /\ call_raised' = TRUE
          /\ Raise("APIError")
          /\ llm_calls' = Answered(llm_calls, "raised")
          /\ UNCHANGED <<response_text, sql_query>>
       \/ \E r \in SqlResponses :
             /\ response_text' = r
             /\ call_raised' = FALSE
             /\ sql_query' = GenerateSqlReturn(r)
             /\ pc' = "sql_generated"
             /\ llm_calls' = Answered(llm_calls, "returned")
             /\ UNCHANGED error
    /\ UNCHANGED <<fenceVars, loadVars, file_names, relevant_files, tables,
                   relevant_tables, columns_info, result>>

\* lines 181-189
ReturnBundle ==
    /\ pc = "sql_generated"
    /\ result' = << [all_data        |-> data,
                     file_names      |-> file_names,
                     relevant_files  |-> relevant_files,
                     tables          |-> tables,
                     relevant_tables |-> relevant_tables,
                     columns_info    |-> columns_info,
                     final_sql_query |-> sql_query] >>
    /\ pc' = "returned"
    /\ UNCHANGED <<fenceVars, response_text, loadVars, error, file_names,
                   relevant_files, tables, relevant_tables, columns_info, sql_query,
                   llm_calls, call_raised>>

Init ==
    /\ disk \in PipelineDisks
    /\ idx = 0
    /\ file_structure = <<>>
    /\ data = <<>>
    /\ pc = "load"
    /\ error = ""
    /\ payload = "" /\ fence = "none" /\ response_text = "" /\ cleaned = ""
    /\ parsed = ParseFail
    /\ PipeUnused

Next ==
    \/ LoadFile
    \/ LoadReturn
    \/ IssueFilesCall
    \/ ReceiveFilesResponse
    \/ ExtractTables
    \/ IssueTablesCall
    \/ ReceiveTablesResponse
    \/ GatherTableInfo
    \/ IssueSqlCall
    \/ ReceiveSqlResponse
    \/ ReturnBundle

Spec == Init /\ [][Next]_vars

(***************************************************************************)
(* Claims about run_full_process (checked under Spec).                     *)
(***************************************************************************)
\* the responses that are no JSON after the clean-up, or JSON without the key
UnusableFilesResponses == BadFilesPayloads \cup FencedBadFilesResponses
UnusableTablesResponses == BadTablesPayloads \cup FencedBadTablesResponses

\* the corpus load raises on the files the run found
LoadRaises == get_table_clusters(disk).error # ""

\* C1: a run whose corpus load raises, whose LLM client raises, or whose file
\* or table selection response is no JSON after the clean-up or lacks its key,
\* is aborted at that stage: it ends raised, with no bundle, and from there no
\* step of the run is possible (no later stage, no later LLM call, no second
\* try of the stage); a bundle exists only once the run has returned.
C1_StageFailureAbortsRun ==
    /\ LoadRaises => pc \in {"load", "raised"}
    /\ call_raised => pc = "raised"
    /\ response_text \in UnusableFilesResponses =>
          pc = "raised" /\ Len(llm_calls) = 1
    /\ response_text \in UnusableTablesResponses =>
          pc = "raised" /\ Len(llm_calls) = 2
    /\ pc = "raised" => error # "" /\ result = <<>> /\ ~(ENABLED Next)
    /\ result # <<>> => pc = "returned" /\ error = ""

\* C1 witness: the table selector's response lacked relevant_tables after
\* the file selection had succeeded; the run stopped with two calls issued.
C1_Witness ==
    /\ pc = "raised"
    /\ error = "KeyError"
    /\ response_text \in UnusableTablesResponses
    /\ relevant_files # JNull
    /\ Len(llm_calls) = 2
    /\ result = <<>>

StageOrder == <<"files", "tables", "sql">>

\* C2: the calls are issued in the order files, tables, sql, each at most
\* once; a call is issued only when the response to the call before it has
\* arrived and been parsed; a run that returned a bundle issued all three.
C2_ThreeCallsInOrder ==
    /\ Len(llm_calls) <= Len(StageOrder)
    /\ \A k \in 1..Len(llm_calls) : llm_calls[k].stage = StageOrder[k]
    /\ \A k \in 2..Len(llm_calls) : llm_calls[k - 1].status = "parsed"
    /\ Len(llm_calls) >= 2 =>
          pc \notin {"load", "loaded", "files_waiting", "files_selected"}
    /\ Len(llm_calls) >= 3 =>
          pc \in {"sql_waiting", "sql_generated", "returned", "raised"}
    /\ result # <<>> =>
          /\ Len(llm_calls) = 3
          /\ llm_calls[3].status = "returned"

\* C2 witness: a run returned its bundle with an empty file selection and
\* an empty candidate table list, and three calls issued.
C2_Witness ==
    /\ pc = "returned"
    /\ result[1].relevant_files = JArr(<<>>)
    /\ result[1].tables = <<>>
    /\ Len(llm_calls) = 3

\* C9: the bundle's final_sql_query is the third response as the LLM sent it,
\* fence and whitespace included, while relevant_files and relevant_tables are
\* what the first two responses hold once their outer fence is taken off.
C9_SqlResponseVerbatim ==
    /\ pc \in {"sql_generated", "returned"} =>
          response_text \in SqlResponses /\ sql_query = response_text
    /\ pc = "returned" => result[1].final_sql_query = response_text
    /\ pc \in {"files_selected", "tables_extracted", "tables_waiting"} =>
          relevant_files =
              Lookup(json_loads(StripOuterFence(response_text)).val, "relevant_files").val
    /\ pc \in {"tables_selected", "info_gathered", "sql_waiting"} =>
          relevant_tables =
              Lookup(json_loads(StripOuterFence(response_text)).val, "relevant_tables").val

\* C9 witness: the bundle holds a fenced SQL response, fence and all.
C9_Witness ==
    /\ pc = "returned"
    /\ StartsWith(response_text, FenceMark)
    /\ EndsWith(response_text, "\n")
    /\ result[1].final_sql_query = response_text

TableString(desc) == desc.table_name.s \o " : " \o desc.table_description.s

InSeq(x, q) == \E j \in 1..Len(q) : q[j] = x

\* C10: in the bundle of a run that returned, every entry of columns_info is
\* a descriptor of the corpus under a file that is an entry of relevant_files
\* and a key of the corpus, its "name : description" string is among the
\* candidate strings offered to the table selector, and all_data is the
\* corpus as the loader built it from the files.
C10_ColumnsInfoFromSelectedFiles ==
    pc = "returned" =>
        LET b == result[1]
            sel == Iterate(b.relevant_files).items
        IN  /\ b.all_data = get_table_clusters(disk).fs
            /\ b.all_data = data
            /\ b.file_names = DictKeys(b.all_data)
            /\ llm_calls[2].listed = b.tables
            /\ \A k \in 1..Len(b.columns_info) :
                  /\ \E j \in 1..Len(sel) :
                        /\ InCorpus(b.all_data, sel[j])
                        /\ InSeq(b.columns_info[k], DictGet(b.all_data, sel[j].s))
                  /\ InSeq(TableString(b.columns_info[k]), b.tables)

\* C10 witness: the LLM named a file and a table it was never offered, and
\* the bundle still has columns_info entries.
C10_Witness ==
    /\ pc = "returned"
    /\ InSeq(JStr("zz.json"), result[1].relevant_files.q)
    /\ InSeq(JStr("customers (crm)"), result[1].relevant_tables.q)
    /\ ~InSeq("customers : ", result[1].tables)
    /\ Len(result[1].columns_info) > 0

(***************************************************************************)
(* Extractor and gatherer check: get_tables_from_files and grab_table_info *)
(* applied to a corpus the loader can build, a file selection and a        *)
(* relevant-table list.                                                    *)
(***************************************************************************)
LoadableCorpora ==
    {get_table_clusters(d).fs : d \in {x \in PipelineDisks : get_table_clusters(x).error = ""}}

\* the sequences of at most n elements of S
RECURSIVE SeqsUpTo(_, _)
SeqsUpTo(S, n) ==
    IF n = 0 THEN {<<>>}
    ELSE LET P == SeqsUpTo(S, n - 1) IN P \cup {Append(q, x) : q \in P, x \in S}

RelevantTableEntries == {"orders_2024", "orders", "customers (crm)", "ord"}

StringList(q) == JArr([j \in 1..Len(q) |-> JStr(q[j])])

InitExtract ==
    /\ data \in LoadableCorpora
    /\ relevant_files \in {StringList(q) : q \in SeqsUpTo(FileSelNames, MaxPicked)}
    /\ \/ /\ pc = "files_selected"
          /\ relevant_tables = JNull
       \/ /\ pc = "tables_selected"
          /\ relevant_tables \in
                {StringList(q) : q \in SeqsUpTo(RelevantTableEntries, MaxSel)}
    /\ file_names = DictKeys(data)
    /\ tables = <<>>
    /\ columns_info = <<>>
    /\ sql_query = ""
    /\ result = <<>>
    /\ llm_calls = <<>>
    /\ call_raised = FALSE
    /\ disk = <<>> /\ idx = 0 /\ file_structure = <<>>
    /\ error = ""
    /\ payload = "" /\ fence = "none" /\ response_text = "" /\ cleaned = ""
    /\ parsed = ParseFail

NextExtract == ExtractTables \/ GatherTableInfo

SpecExtract == InitExtract /\ [][NextExtract]_vars

(***************************************************************************)
(* Claims about the extractor and the gatherer (checked under SpecExtract).*)
(***************************************************************************)
\* the file names of a selection, as strings
SelectedNames == [j \in 1..Len(relevant_files.q) |-> relevant_files.q[j].s]

IsKey(name) == DictHas(data, name)

\* q1 \o q2 \o ... for a sequence of sequences
RECURSIVE Flatten(_)
Flatten(qq) == IF qq = <<>> THEN <<>> ELSE Head(qq) \o Flatten(Tail(qq))

RECURSIVE SumLen(_)
SumLen(qq) == IF qq = <<>> THEN 0 ELSE Len(Head(qq)) + SumLen(Tail(qq))

\* the descriptor lists of the selected files that are keys of the corpus, in
\* selection order, a file selected twice taken twice
SelectedLists ==
    LET known == SelectSeq(SelectedNames, IsKey)
    IN  [j \in 1..Len(known) |-> DictGet(data, known[j])]

\* C5: the extractor's output is the concatenation, over the entries of the
\* selection in order (a repeated entry each time), of "name : description"
\* for the descriptors of the entry's file in corpus order; an entry that is
\* no key of the corpus adds nothing and raises nothing; the output is as
\* long as the selected files' table lists together.
C5_ExtractorConcatenates ==
    /\ ~(pc = "raised")
    /\ pc = "tables_extracted" =>
          LET all == Flatten(SelectedLists)
          IN  /\ tables = [k \in 1..Len(all) |-> TableString(all[k])]
              /\ Len(tables) = SumLen(SelectedLists)

\* C5 witness: the selection names a file twice and a file the corpus does not
\* have, and the output holds the repeated file's strings twice.
C5_Witness ==
    /\ pc = "tables_extracted"
    /\ SelectedNames = <<"a.json", "zz.json", "a.json">>
    /\ tables = <<"orders : sales", "orders_2024 : ", "orders : sales", "orders_2024 : ">>

\* the table's name is contained in (or equal to) an entry of the list
NameInSomeEntry(desc) ==
    \E j \in 1..Len(relevant_tables.q) :
        IsSubstring(desc.table_name.s, relevant_tables.q[j].s)

Reverse(q) == [j \in 1..Len(q) |-> q[Len(q) + 1 - j]]

\* C6: the gatherer emits exactly the descriptors of the selected files whose
\* name is contained in at least one entry of the relevant-table list, in file
\* selection order then corpus order, each as {name, description, columns};
\* the list taken in the opposite order gives the same output.
C6_GathererMatchesBySubstring ==
    pc = "info_gathered" =>
        /\ columns_info = SelectSeq(Flatten(SelectedLists), NameInSomeEntry)
        /\ columns_info =
              grab_table_info(JArr(Reverse(relevant_tables.q)), relevant_files, data).out

\* C6 witness: the only entry of the list is orders_2024, and the descriptor
\* named orders was emitted before the one named orders_2024.
C6_Witness ==
    /\ pc = "info_gathered"
    /\ relevant_tables = StringList(<<"orders_2024">>)
    /\ Len(columns_info) = 2
    /\ columns_info[1].table_name = JStr("orders")
    /\ columns_info[1].columns = JArr(<<JStr("id")>>)
    /\ columns_info[2].table_name = JStr("orders_2024")

====
